---- MODULE Spec2Model ----
(***************************************************************************)
(* Model of the agentcast client-side reliability layer:                   *)
(*   - dist/browser.js : failure classifier, circuit breaker, retry        *)
(*                       schedule and startBrowser                         *)
(*   - browser-agent.ts: BrowserAgent session lifecycle                    *)
(* Time is Date.now() in milliseconds.  A failure message is modelled by   *)
(* the set of classifier patterns it contains (String.includes).           *)
(***************************************************************************)
EXTENDS Integers, Sequences, FiniteSets, TLC

VARIABLES now, circuitBreakerState, _session, proc, acked, startBudget, callBudget,
          history, _confirmationPromise, confirmations

vars == <<now, circuitBreakerState, _session, proc, acked, startBudget, callBudget,
         history, _confirmationPromise, confirmations>>

(***************************************************************************)
(* Bounds of the model                                                     *)
(***************************************************************************)
\* Largest clock value explored (ms).
MaxTime == 610000
\* Number of remote start calls one behaviour may issue: for callers of
\* startBrowser alone, and for the overlapping calls on a BrowserAgent.
MaxStartCalls == 6
MaxAgentStartCalls == 2
\* Number of calls of the BrowserAgent API one behaviour may make.
MaxApiCalls == 3

\* Number of confirm calls one behaviour may make, and of initialize calls
\* (and remote start calls) beside them.
MaxConfirms == 2
MaxConfirmStarts == 1
\* For one agent used by one caller that only initializes: the number of
\* initialize calls and of remote start calls of a behaviour.
MaxInitCalls == 1
MaxInitStartCalls == 22
\* For one agent initialized again and again by one caller: the number of
\* initialize calls and of remote start calls of a behaviour.
MaxAgainCalls == 3
MaxAgainStartCalls == 7
\* For the withBrowser mixin: the number of API calls and of remote start
\* calls of a behaviour.
MaxMixinCalls == 3
MaxMixinStartCalls == 3
\* For two callers of startBrowser with an id each: the number of remote
\* start calls of a behaviour.
MaxPairStartCalls == 4
\* For one agent used by one caller, one call after the other: the number of
\* API calls and of remote start calls of a behaviour.
MaxOpsCalls == 4
MaxOpsStartCalls == 3

\* Session ids a caller may pass, and the slots for overlapping async calls.
Ids == {"s1", "s2"}
Procs == {"p1", "p2", "p3"}

\* Amounts of idle time a caller may let pass between calls (ms).
TickSteps == {300000, 301000}
\* How long a remote call takes to answer (ms), when it answers at all.
CallDurations == {0}

(***************************************************************************)
(* Program constants                                                       *)
(***************************************************************************)
CIRCUIT_BREAKER_THRESHOLD == 5
CIRCUIT_BREAKER_WINDOW_MS == 5 * 60 * 1000
CIRCUIT_BREAKER_COOLDOWN_MS == 10 * 60 * 1000
\* Schedule.recurs(20): number of recurrences (retries) the schedule allows.
RetryRecurs == 20
\* Schedule.exponential(1000, 2) and Schedule.spaced(5000).
ExponentialBase == 1000
SpacedDelay == 5000
\* Effect.timeoutFail({ duration: Duration.seconds(120) }).
StartTimeoutMs == 120 * 1000

(***************************************************************************)
(* Failure messages                                                        *)
(***************************************************************************)
\* The substrings the two classifiers look for.
RetryablePatterns == {"Connection refused", "container port not found",
                      "Monitor failed", "The operation was aborted",
                      "timeout", "Container crashed"}
FatalPatterns == {"non-retryable", "validation", "invalid"}

\* Texts the remote side (or the transport) may produce, each given by the
\* classifier patterns it contains; {} is a text containing none of them.
Texts == { {}, {"timeout"}, {"invalid"} }

\* What one remote start call can answer.
Responses ==
    [kind : {"ok"}, text : {{}}]
    \cup [kind : {"http4xx", "http5xx", "dataError", "throw"}, text : Texts]
    \cup [kind : {"notSuccess"}, text : {{}}]

\* The message of the Error thrown inside startBrowser's try block.
StartErrorMessage(resp) ==
    CASE resp.kind = "http4xx"    -> [tmpl |-> "Container start failed (non-retryable): ", text |-> resp.text]
      [] resp.kind = "http5xx"    -> [tmpl |-> "Container start failed: ", text |-> resp.text]
      [] resp.kind = "dataError"  -> [tmpl |-> "Container start error: ", text |-> resp.text]
      [] resp.kind = "notSuccess" -> [tmpl |-> "Container start returned success=false", text |-> {}]
      [] OTHER                    -> [tmpl |-> "", text |-> resp.text]

\* Patterns contained in the fixed part of a message.
TemplatePatterns(tmpl) ==
    CASE tmpl = "Container start failed (non-retryable): " -> {"Container start failed", "non-retryable"}
      [] tmpl = "Container start failed: "                 -> {"Container start failed"}
      [] tmpl = "Container start timeout after 2 minutes"  -> {"timeout"}
      [] OTHER                                             -> {}

\* msg.includes(pat)
Includes(msg, pat) == pat \in (TemplatePatterns(msg.tmpl) \cup msg.text)

isRetryableError(msg) ==
    \/ Includes(msg, "Connection refused")
    \/ Includes(msg, "container port not found")
    \/ Includes(msg, "Monitor failed")
    \/ Includes(msg, "The operation was aborted")
    \/ Includes(msg, "timeout")
    \/ Includes(msg, "Container crashed")
    \/ (Includes(msg, "Container start failed") /\ ~Includes(msg, "non-retryable"))

isNonRetryableError(msg) ==
    \/ Includes(msg, "non-retryable")
    \/ Includes(msg, "validation")
    \/ Includes(msg, "invalid")

(***************************************************************************)
(* Circuit breaker                                                         *)
(***************************************************************************)
\* circuitBreakerState.get(id) of an id without entry.
NoEntry == [present |-> FALSE, failures |-> 0, lastFailure |-> 0, open |-> FALSE]

\* Return value of checkCircuitBreaker(sessionId) at time t.
checkCircuitBreaker(cb, id, t) ==
    LET state == cb[id] IN
    IF ~state.present THEN TRUE
    ELSE IF t - state.lastFailure > CIRCUIT_BREAKER_WINDOW_MS THEN TRUE
    ELSE IF state.open
         THEN t - state.lastFailure > CIRCUIT_BREAKER_COOLDOWN_MS
         ELSE TRUE

\* The map after checkCircuitBreaker(sessionId) at time t.
checkCircuitBreakerEffectKeepsStale(cb, id, t) ==
    LET state == cb[id] IN
    IF ~state.present THEN cb
    ELSE IF state.open /\ t - state.lastFailure > CIRCUIT_BREAKER_COOLDOWN_MS
         THEN [cb EXCEPT ![id] = NoEntry]
    ELSE cb

checkCircuitBreakerEffect(cb, id, t) ==
    LET state == cb[id] IN
    IF ~state.present THEN cb
    ELSE IF t - state.lastFailure > CIRCUIT_BREAKER_WINDOW_MS
         THEN [cb EXCEPT ![id] = NoEntry]
    ELSE IF state.open /\ t - state.lastFailure > CIRCUIT_BREAKER_COOLDOWN_MS
         THEN [cb EXCEPT ![id] = NoEntry]
    ELSE cb

recordCircuitBreakerFailureShared(cb, id, t) ==
    LET n == cb[id].failures + 1
    IN [i \in DOMAIN cb |-> [present |-> TRUE, failures |-> n, lastFailure |-> t,
                             open |-> (cb[id].open \/ n >= CIRCUIT_BREAKER_THRESHOLD)]]

recordCircuitBreakerFailureOncePerRun(cb, id, t) ==
    LET state == cb[id]
        n == IF state.present /\ t - state.lastFailure <= SpacedDelay
             THEN state.failures ELSE state.failures + 1
    IN [cb EXCEPT ![id] = [present |-> TRUE, failures |-> n, lastFailure |-> t,
                           open |-> (state.open \/ n >= CIRCUIT_BREAKER_THRESHOLD)]]

recordCircuitBreakerFailureOpensLate(cb, id, t) ==
    LET state == cb[id]
        n == state.failures + 1
    IN [cb EXCEPT ![id] = [present |-> TRUE, failures |-> n, lastFailure |-> t,
                           open |-> (state.open \/ n > CIRCUIT_BREAKER_THRESHOLD)]]

recordCircuitBreakerFailure(cb, id, t) ==
    LET state == cb[id]
        n == state.failures + 1
    IN [cb EXCEPT ![id] = [present |-> TRUE, failures |-> n, lastFailure |-> t,
                           open |-> (state.open \/ n >= CIRCUIT_BREAKER_THRESHOLD)]]

recordCircuitBreakerSuccessDecrements(cb, id) ==
    IF cb[id].present /\ cb[id].failures > 1
    THEN [cb EXCEPT ![id] = [@ EXCEPT !.failures = @ - 1]]
    ELSE [cb EXCEPT ![id] = NoEntry]

recordCircuitBreakerSuccessKeeps(cb, id) == cb

recordCircuitBreakerSuccess(cb, id) == [cb EXCEPT ![id] = NoEntry]

(***************************************************************************)
(* Retry schedule                                                          *)
(***************************************************************************)
RECURSIVE Pow2(_)
Pow2(n) == IF n = 0 THEN 1 ELSE 2 * Pow2(n - 1)

Min(a, b) == IF a < b THEN a ELSE b

\* Delay before the k-th retry (k >= 1): exponential(1000, 2) united with
\* spaced(5000), the union taking the shorter of the two delays.
RetryDelayUncapped(k) == ExponentialBase * Pow2(k - 1)

RetryDelay(k) == Min(ExponentialBase * Pow2(k - 1), SpacedDelay)

\* containerRetrySchedule: does the schedule recur after a failure with
\* message msg, when `retries` retries have already been made?
ScheduleRecurs(msg, retries) == retries < RetryRecurs /\ isRetryableError(msg)

(***************************************************************************)
(* Values                                                                  *)
(***************************************************************************)
NoMessage == [tmpl |-> "", text |-> {"<none>"}]
NoResult == [type |-> "none", message |-> NoMessage, sessionId |-> "none"]
OkResult == [type |-> "ok", message |-> NoMessage, sessionId |-> "none"]

ContainerStartError(msg, id) ==
    [type |-> "ContainerStartError", message |-> msg, sessionId |-> id]
SessionNotConnectedError(msg, id) ==
    [type |-> "SessionNotConnectedError", message |-> msg, sessionId |-> id]

CircuitOpenMessage == [tmpl |-> "Circuit breaker is open", text |-> {}]
StartTimeoutMessage == [tmpl |-> "Container start timeout after 2 minutes", text |-> {}]

\* this._session === null
NoSession == [exists |-> FALSE]

\* A call slot with no call running.  attempts counts the remote start calls
\* of the slot's start sequence (for a slot awaiting an operation: the remote
\* calls of the operation), failed those of them that failed and are
\* followed by a retry.
IdleProc == [pc |-> "idle", method |-> "none", id |-> "none", attempts |-> 0, failed |-> 0,
             seqStart |-> 0, sentAt |-> 0, wake |-> 0, polls |-> 0, arg |-> "none",
             err |-> NoMessage, result |-> NoResult]

\* The remote call of the slot, issued at sentAt, may answer now.
Answers(pr) == (now - pr.sentAt) \in CallDurations

\* Slots with a start sequence under way (remote call in flight, or
\* sleeping before a retry).
StartPcs == {"awaiting_start", "retry_wait"}

(***************************************************************************)
(* Observers (not program state): acked is the set of ids for which a      *)
(* remote start has been acknowledged as successful; startBudget and       *)
(* callBudget are the numbers of remote start calls and of BrowserAgent    *)
(* API calls the behaviour may still make; history[id] describes the run   *)
(* of start sequences for id since the last success, where Init starts it  *)
(* at NoHistory.                                                           *)
(***************************************************************************)
\* failedStarts: start sequences that failed since the last success (counted
\* up to the threshold); since: when the first of them failed;
\* failedAttempts: remote start calls that failed since the last success;
\* cleared: the breaker's failure count that the last success removed.
NoHistory == [failedStarts |-> 0, since |-> 0, failedAttempts |-> 0, cleared |-> 0]

Untracked == [failedStarts |-> -1, since |-> 0, failedAttempts |-> -1, cleared |-> 0]

HistoryAfterFailedAttempt(h, id) ==
    IF h[id] = Untracked THEN h
    ELSE [h EXCEPT ![id] = [@ EXCEPT !.failedAttempts = @ + 1]]

HistoryAfterFailedStart(h, id, t) ==
    IF h[id] = Untracked THEN h ELSE
    [h EXCEPT ![id] = [@ EXCEPT
        !.failedStarts = IF @ < CIRCUIT_BREAKER_THRESHOLD THEN @ + 1 ELSE @,
        !.since = IF h[id].failedStarts = 0 THEN t ELSE @]]

HistoryAfterSuccess(h, id, cb) ==
    IF h[id] = Untracked THEN h ELSE
    [h EXCEPT ![id] = [failedStarts |-> 0, since |-> 0, failedAttempts |-> 0,
                       cleared |-> cb[id].failures]]

(***************************************************************************)
(* startBrowser                                                            *)
(***************************************************************************)
\* BrowserAgent.initialize, lines 159-172: what the completion of the
\* start sequence does to the session.  A bare startBrowser call has no
\* session to update.  The withBrowser mixin (part_005 368-387) sets
\* 'stopped' on failure and stores no error.
SessionAfterStartSuccessOnly(sess, method, ok, msg) ==
    IF method = "startBrowser" \/ ~sess.exists THEN sess
    ELSE IF ok THEN [sess EXCEPT !.status = "ready", !.wsEndpoint = "ws"]
    ELSE sess

SessionAfterStart(sess, method, ok, msg) ==
    IF method = "startBrowser" \/ ~sess.exists THEN sess
    ELSE IF ok THEN [sess EXCEPT !.status = "ready", !.wsEndpoint = "ws"]
    ELSE IF method = "withBrowser.initialize" THEN [sess EXCEPT !.status = "stopped"]
    ELSE [sess EXCEPT !.status = "error", !.error = msg]

\* The slot after its start sequence ended in failure with message msg:
\* the caller gets a ContainerStartError with the message and the session
\* id; err holds the message of its cause, the underlying error, if the
\* catch or mapError attached one (lines 128-132, 145-149).
ProcAfterStartFailureBare(pr, msg, cause, nextPc) ==
    [IdleProc EXCEPT !.pc = nextPc, !.method = pr.method,
                     !.id = IF nextPc = "orphaned" THEN pr.id ELSE "none",
                     !.sentAt = IF nextPc = "orphaned" THEN now ELSE 0,
                     !.result = ContainerStartError(msg, "none")]

ProcAfterStartFailure(pr, msg, cause, nextPc) ==
    [IdleProc EXCEPT !.pc = nextPc, !.method = pr.method,
                     !.id = IF nextPc = "orphaned" THEN pr.id ELSE "none",
                     !.sentAt = IF nextPc = "orphaned" THEN now ELSE 0,
                     !.err = cause,
                     !.result = ContainerStartError(msg, pr.id)]

\* The instant at which Effect.timeoutFail interrupts the sequence of the
\* slot: 120 s after the whole retried effect began, lines 136-141.
StartDeadlinePerAttempt(pr) == pr.sentAt + StartTimeoutMs

StartDeadline(pr) == pr.seqStart + StartTimeoutMs

\* The slot after its start sequence succeeded.  initialize() returns; an
\* operation whose ensureInitialized called it finds the status 'ready'
\* (line 252) and issues its one remote call for this._session.id.
ProcAfterStartSuccess(pr, sess) ==
    IF pr.method \in {"startBrowser", "initialize", "withBrowser.initialize"}
    THEN [IdleProc EXCEPT !.method = pr.method, !.result = OkResult]
    ELSE [IdleProc EXCEPT !.pc = "awaiting_op", !.method = pr.method,
                          !.id = sess.id, !.arg = pr.arg, !.sentAt = now,
                          !.attempts = 1]

\* startBrowser(containerNamespace, sessionId, options), lines 80-105: the
\* breaker is checked; when it allows, the first container.fetch is issued.
BeginStart(id, method, arg, allowed) ==
    [IdleProc EXCEPT !.pc = IF allowed THEN "awaiting_start" ELSE "start_rejected",
                     !.method = method, !.id = id, !.arg = arg,
                     !.attempts = IF allowed THEN 1 ELSE 0,
                     !.seqStart = now, !.sentAt = now, !.wake = 0]

\* A caller outside the agent runs startBrowser for id.
StartBrowserCall(p, id) ==
    /\ proc[p].pc = "idle"
    /\ LET allowed == checkCircuitBreaker(circuitBreakerState, id, now) IN
       /\ allowed => startBudget > 0
       /\ circuitBreakerState' = checkCircuitBreakerEffect(circuitBreakerState, id, now)
       /\ proc' = [proc EXCEPT ![p] = BeginStart(id, "startBrowser", "none", allowed)]
       /\ startBudget' = IF allowed THEN startBudget - 1 ELSE startBudget
    /\ UNCHANGED <<now, _session, acked, history, callBudget,
                 _confirmationPromise, confirmations>>

\* Effect.fail(circuit open) reaches the caller: lines 82-87, 142-150.
StartRejectedRecords(p) ==
    /\ proc[p].pc = "start_rejected"
    /\ proc' = [proc EXCEPT ![p] =
          ProcAfterStartFailure(proc[p], CircuitOpenMessage, NoMessage, "idle")]
    /\ _session' = SessionAfterStart(_session, proc[p].method, FALSE, CircuitOpenMessage)
    /\ history' = HistoryAfterFailedStart(history, proc[p].id, now)
    /\ circuitBreakerState' = recordCircuitBreakerFailure(circuitBreakerState, proc[p].id, now)
    /\ UNCHANGED <<now, acked, startBudget, callBudget,
                 _confirmationPromise, confirmations>>

StartRejected(p) ==
    /\ proc[p].pc = "start_rejected"
    /\ proc' = [proc EXCEPT ![p] = ProcAfterStartFailure(proc[p], CircuitOpenMessage, NoMessage, "idle")]
    /\ _session' = SessionAfterStart(_session, proc[p].method, FALSE, CircuitOpenMessage)
    /\ history' = HistoryAfterFailedStart(history, proc[p].id, now)
    /\ UNCHANGED <<now, circuitBreakerState, acked, startBudget, callBudget,
                 _confirmationPromise, confirmations>>

\* The container.fetch of a start attempt settles with resp: lines 105-136.
StartResponse(p, resp) ==
    /\ proc[p].pc = "awaiting_start"
    /\ Answers(proc[p])
    /\ LET pr == proc[p]
           id == pr.id
           msg == StartErrorMessage(resp)
       IN IF resp.kind = "ok"
          THEN /\ circuitBreakerState' = recordCircuitBreakerSuccess(circuitBreakerState, id)
               /\ proc' = [proc EXCEPT ![p] = ProcAfterStartSuccess(pr, _session)]
               /\ _session' = SessionAfterStart(_session, pr.method, TRUE, msg)
               /\ acked' = acked \cup {id}
               /\ history' = HistoryAfterSuccess(history, id, circuitBreakerState)
          ELSE /\ circuitBreakerState' = recordCircuitBreakerFailure(circuitBreakerState, id, now)
               /\ acked' = acked
               /\ IF ScheduleRecurs(msg, pr.attempts - 1)
                  THEN /\ proc' = [proc EXCEPT ![p] =
                              [pr EXCEPT !.pc = "retry_wait", !.err = msg, !.failed = @ + 1,
                                         !.wake = now + RetryDelay(pr.attempts)]]
                       /\ _session' = _session
                       /\ history' = HistoryAfterFailedAttempt(history, id)
                  ELSE /\ proc' = [proc EXCEPT ![p] = ProcAfterStartFailure(pr, msg, msg, "idle")]
                       /\ _session' = SessionAfterStart(_session, pr.method, FALSE, msg)
                       /\ history' = HistoryAfterFailedStart(
                                        HistoryAfterFailedAttempt(history, id), id, now)
    /\ UNCHANGED <<now, startBudget, callBudget,
                 _confirmationPromise, confirmations>>

\* The retry delay has elapsed: the next container.fetch is issued.  The
\* retried effect is the tryPromise alone; checkCircuitBreaker (line 82) is
\* outside it.
RetryWakeChecksBreaker(p) ==
    /\ proc[p].pc = "retry_wait"
    /\ now >= proc[p].wake
    /\ startBudget > 0
    /\ IF checkCircuitBreaker(circuitBreakerState, proc[p].id, now)
       THEN /\ proc' = [proc EXCEPT ![p] = [@ EXCEPT !.pc = "awaiting_start",
                                                    !.sentAt = now,
                                                    !.attempts = @ + 1,
                                                    !.err = NoMessage]]
            /\ startBudget' = startBudget - 1
       ELSE /\ proc' = [proc EXCEPT ![p] = [@ EXCEPT !.pc = "start_rejected"]]
            /\ startBudget' = startBudget
    /\ UNCHANGED <<now, circuitBreakerState, _session, acked, history, callBudget,
                 _confirmationPromise, confirmations>>

RetryWake(p) ==
    /\ proc[p].pc = "retry_wait"
    /\ now >= proc[p].wake
    /\ startBudget > 0
    /\ proc' = [proc EXCEPT ![p] = [@ EXCEPT !.pc = "awaiting_start", !.sentAt = now,
                                             !.attempts = @ + 1, !.err = NoMessage]]
    /\ startBudget' = startBudget - 1
    /\ UNCHANGED <<now, circuitBreakerState, _session, acked, history, callBudget,
                 _confirmationPromise, confirmations>>

\* Effect.timeoutFail, lines 136-141: 120 s after the sequence began it is
\* interrupted.  A fetch still in flight is not aborted (the try block
\* ignores the abort signal): it stays pending, detached from the caller.
StartTimeout(p) ==
    /\ proc[p].pc \in StartPcs
    /\ now >= StartDeadline(proc[p])
    /\ proc' = [proc EXCEPT ![p] = ProcAfterStartFailure(proc[p], StartTimeoutMessage,
                   NoMessage, IF proc[p].pc = "awaiting_start" THEN "orphaned" ELSE "idle")]
    /\ _session' = SessionAfterStart(_session, proc[p].method, FALSE, StartTimeoutMessage)
    /\ history' = HistoryAfterFailedStart(history, proc[p].id, now)
    /\ UNCHANGED <<now, circuitBreakerState, acked, startBudget, callBudget,
                 _confirmationPromise, confirmations>>

\* The fetch of an interrupted sequence settles (here: right when the
\* sequence is interrupted, or never): the rest of the try block, lines
\* 106-123, still runs; its outcome reaches nobody.
OrphanSettles(p, resp) ==
    /\ proc[p].pc = "orphaned"
    /\ Answers(proc[p])
    /\ proc' = [proc EXCEPT ![p] = [@ EXCEPT !.pc = "idle", !.id = "none",
                                             !.sentAt = 0]]
    /\ circuitBreakerState' =
          IF resp.kind = "ok"
          THEN recordCircuitBreakerSuccess(circuitBreakerState, proc[p].id)
          ELSE circuitBreakerState
    /\ history' =
          IF resp.kind = "ok"
          THEN HistoryAfterSuccess(history, proc[p].id, circuitBreakerState)
          ELSE history
    /\ UNCHANGED <<now, _session, acked, startBudget, callBudget,
                 _confirmationPromise, confirmations>>

(***************************************************************************)
(* Time                                                                    *)
(***************************************************************************)
\* Instants at which a pending timer of slot p fires.
Timers(p) ==
    LET pr == proc[p] IN
    (IF pr.pc = "retry_wait" THEN {pr.wake} ELSE {})
    \cup (IF pr.pc \in StartPcs THEN {StartDeadline(pr)} ELSE {})
    \cup (IF pr.pc = "polling" THEN {pr.wake} ELSE {})

\* Confirmations are numbered in the order of the confirm calls; 0 stands
\* for this._confirmationPromise === null.
ConfIds == 1..MaxConfirms
NoConfirmation == [state |-> "none", value |-> FALSE, error |-> NoMessage,
                   deadline |-> 0, timer |-> FALSE, resolvedAt |-> 0, by |-> "none"]

\* Instants at which the setTimeout of a confirm call fires.
ConfirmTimers == {confirmations[c].deadline : c \in {d \in ConfIds : confirmations[d].timer}}

AllTimers == UNION {Timers(p) : p \in Procs} \cup ConfirmTimers

\* A rejected start fails within the turn that called it: no timer fires
\* before the caller has the failure.
NoTurnPending == \A p \in Procs : proc[p].pc # "start_rejected"

\* Time passes: never beyond a pending timer.
Tick ==
    /\ \E t \in {now + d : d \in TickSteps} \cup AllTimers :
          /\ t > now
          /\ t <= MaxTime
          /\ \A u \in AllTimers : t <= u
          /\ NoTurnPending
          /\ now' = t
    /\ UNCHANGED <<circuitBreakerState, _session, proc, acked, startBudget, history, callBudget,
                 _confirmationPromise, confirmations>>

(***************************************************************************)
(* Specification of the start executor alone: callers run startBrowser     *)
(***************************************************************************)
Init ==
    /\ now = 0
    /\ circuitBreakerState = [i \in Ids |-> NoEntry]
    /\ _session = NoSession
    /\ proc = [p \in Procs |-> IdleProc]
    /\ acked = {}
    /\ startBudget = MaxStartCalls
    /\ callBudget = 0
    /\ history = [i \in Ids |-> NoHistory]
    /\ _confirmationPromise = 0
    /\ confirmations = [c \in ConfIds |-> NoConfirmation]

\* One caller at a time, one session id.
StartProcs == {"p1"}
StartIds == {"s1"}

NextStart ==
    \/ \E p \in StartProcs, id \in StartIds : StartBrowserCall(p, id)
    \/ \E p \in StartProcs : StartRejected(p)
    \/ \E p \in StartProcs, resp \in Responses : StartResponse(p, resp)
    \/ \E p \in StartProcs : RetryWake(p)
    \/ \E p \in StartProcs : StartTimeout(p)
    \/ \E p \in StartProcs, resp \in Responses : OrphanSettles(p, resp)
    \/ Tick

SpecStart == Init /\ [][NextStart]_vars

(***************************************************************************)
(* BrowserAgent                                                            *)
(***************************************************************************)
\* this.name: the id ensureInitialized falls back to without a session.
AgentName == "s1"
\* DEFAULTS.VIEWPORT and a viewport a caller may resize to.
DefaultViewport == "1280x720"
Viewports == {"1280x720", "800x600"}
\* options.colorScheme ?? 'dark'
DefaultColorScheme == "dark"
\* getWorkerUrl() without configuration.
DEFAULT_WORKER_URL == "http://localhost:1337"
\* maxAttempts of both waiting loops of ensureInitialized.
maxAttempts == 60
PollIntervalMs == 1000

OpKinds == {"goto", "act", "extract", "resize", "reload"}

BrowserInitFailedMessage == [tmpl |-> "Browser initialization failed", text |-> {}]
InitTimeoutMessage == [tmpl |-> "Browser initialization timeout", text |-> {}]
NotReadyMessage == [tmpl |-> "Browser not initialized or not ready", text |-> {}]

\* The options of an initialize call; "none" and "" stand for an option
\* that is not given.
NoOptions(id) ==
    [sessionId |-> id, viewport |-> "none", colorScheme |-> "none", workerUrl |-> ""]

\* this._workerUrl: '' until the first initialize, which assigns it the
\* base address it also builds the session's viewUrl from (lines 120-121,
\* 136); nothing else assigns either, so it is read off the session.
_workerUrl == IF _session.exists THEN _session.viewUrl ELSE ""

\* options.workerUrl || this._workerUrl || getWorkerUrl(), line 120.
BaseUrl(options) ==
    IF options.workerUrl # "" THEN options.workerUrl
    ELSE IF _workerUrl # "" THEN _workerUrl
    ELSE DEFAULT_WORKER_URL

\* The record initialize() assigns to this._session, lines 132-142.  viewUrl
\* holds the base address of `${baseUrl}/view/${sessionId}`.
NewSessionKeepsRun(options) ==
    [exists |-> TRUE, id |-> options.sessionId, status |-> "starting",
     error |-> IF _session.exists THEN _session.error ELSE NoMessage,
     wsEndpoint |-> IF _session.exists THEN _session.wsEndpoint ELSE "none",
     viewUrl |-> BaseUrl(options),
     viewport |-> IF options.viewport = "none" THEN DefaultViewport ELSE options.viewport,
     colorScheme |-> IF options.colorScheme = "none" THEN DefaultColorScheme
                     ELSE options.colorScheme,
     lastActivity |-> now]

NewSession(options) ==
    [exists |-> TRUE, id |-> options.sessionId, status |-> "starting",
     error |-> NoMessage, wsEndpoint |-> "none",
     viewUrl |-> BaseUrl(options),
     viewport |-> IF options.viewport = "none" THEN DefaultViewport ELSE options.viewport,
     colorScheme |-> IF options.colorScheme = "none" THEN DefaultColorScheme
                     ELSE options.colorScheme,
     lastActivity |-> now]

\* get status(), line 99-101.
status == IF _session.exists THEN _session.status ELSE "stopped"

\* this._session.error ?? 'Browser initialization failed'
StoredErrorDropped(sess) == BrowserInitFailedMessage

StoredErrorOrDefault(sess) ==
    IF sess.error = NoMessage THEN BrowserInitFailedMessage ELSE sess.error

\* The type of error a failed remote call of the operation raises.
OpErrorType(kind) == IF kind = "goto" THEN "NavigationError" ELSE "BrowserError"

\* What the remote call of an operation can answer: a success whose payload
\* is fine; a response that is not ok, or a fetch that throws, with a text;
\* a payload with success=false or an error; a payload that the caller's
\* schema does not accept.
OpResponses ==
    [kind : {"ok"}, text : {{}}]
    \cup [kind : {"notOk", "throw"}, text : Texts]
    \cup [kind : {"dataError", "schemaMismatch"}, text : {{}}]

\* Does the try block of the operation's remote call complete?  Only
\* extractData looks into the payload (browser.js 284-288); resizeBrowser
\* and reloadBrowser ignore it, sendInstruction returns it as it is.
OpSucceeds(kind, resp) ==
    \/ resp.kind = "ok"
    \/ (resp.kind \in {"dataError", "schemaMismatch"} /\ kind # "extract")

\* The fixed part of the message of the error made by the catch.
OpFailedTemplate(kind) ==
    CASE kind = "goto"    -> "Failed to navigate to "
      [] kind = "act"     -> "Failed to send instruction: "
      [] kind = "extract" -> "Failed to extract data: "
      [] kind = "resize"  -> "Failed to resize: "
      [] OTHER            -> "Failed to reload: "

\* The text of the error thrown inside the try block: the remote's text, or
\* the issues schema.parse reports.
OpFailureText(resp) ==
    IF resp.kind = "schemaMismatch" THEN {"<schema issues>"} ELSE resp.text

\* What the operation hands its caller when its remote call has settled:
\* every error thrown in the try block goes through the one catch.
OpResult(kind, resp) ==
    IF OpSucceeds(kind, resp) THEN OkResult
    ELSE [type |-> OpErrorType(kind),
          message |-> [tmpl |-> OpFailedTemplate(kind), text |-> OpFailureText(resp)],
          sessionId |-> "none"]

\* Is a failed remote call of an operation issued again?  The pipes of
\* sendInstruction, resizeBrowser, reloadBrowser, navigateBrowser and
\* extractData hold no Effect.retry.
OpRetriesLikeStart(msg) == isRetryableError(msg)

OpRetries(msg) == FALSE

\* The session after the remote call of an operation settled, lines 293,
\* 306, 319, 333-334 and 347: they run only when the await did not throw.
SessionAfterOpAlways(sess, method, arg, ok) ==
    [sess EXCEPT !.viewport = IF method = "resize" THEN arg ELSE @,
                 !.lastActivity = now]

SessionAfterOp(sess, method, arg, ok) ==
    IF ok
    THEN [sess EXCEPT !.viewport = IF method = "resize" THEN arg ELSE @,
                      !.lastActivity = now]
    ELSE sess

\* initialize(options), lines 111-154: the session is replaced by a fresh
\* record in 'starting' and startBrowser is called.
Initialize(p, options, method, arg) ==
    LET id == options.sessionId
        allowed == checkCircuitBreaker(circuitBreakerState, id, now) IN
    /\ allowed => startBudget > 0
    /\ _session' = NewSession(options)
    /\ circuitBreakerState' = checkCircuitBreakerEffect(circuitBreakerState, id, now)
    /\ proc' = [proc EXCEPT ![p] = BeginStart(id, method, arg, allowed)]
    /\ startBudget' = IF allowed THEN startBudget - 1 ELSE startBudget
    /\ UNCHANGED <<now, acked, history,
                 _confirmationPromise, confirmations>>

\* A caller invokes initialize(options).
InitializeWith(p, options) ==
    /\ proc[p].pc = "idle"
    /\ callBudget > 0
    /\ callBudget' = callBudget - 1
    /\ Initialize(p, options, "initialize", "none")

\* A caller invokes initialize({ sessionId: id }).
InitializeCall(p, id) == InitializeWith(p, NoOptions(id))

\* The options ensureInitialized passes to initialize, lines 196 and
\* 234-245: what the session holds, else the defaults.
ReinitOptionsDefaults(sess) ==
    [sessionId |-> AgentName, viewport |-> DefaultViewport,
     colorScheme |-> DefaultColorScheme, workerUrl |-> DEFAULT_WORKER_URL]

ReinitOptions(sess) ==
    [sessionId |-> IF sess.exists THEN sess.id ELSE AgentName,
     viewport |-> IF sess.exists THEN sess.viewport ELSE DefaultViewport,
     colorScheme |-> IF sess.exists THEN sess.colorScheme ELSE DefaultColorScheme,
     workerUrl |-> IF _workerUrl # "" THEN _workerUrl ELSE DEFAULT_WORKER_URL]

\* The slot of an operation once ensureInitialized has returned: the one
\* remote call of the operation is issued for this._session.id.
IssueOp(pr, kind, arg, sess) ==
    [IdleProc EXCEPT !.pc = "awaiting_op", !.method = kind, !.id = sess.id,
                     !.arg = arg, !.sentAt = now, !.attempts = 1]

\* The slot of an operation that ensureInitialized made fail.
FailOp(pr, kind, arg, msg, sess) ==
    [IdleProc EXCEPT !.method = kind,
                     !.result = SessionNotConnectedError(msg, sess.id)]

\* The branch ensureInitialized takes, lines 192, 199, 208, 233 and 277.
ensureInitializedAlwaysStarts(sess) ==
    IF ~sess.exists THEN "initialize"
    ELSE CASE sess.status = "ready" -> "ready"
           [] sess.status = "error" -> "error"
           [] sess.status \in {"starting", "stopped"} -> "initialize"
           [] OTHER -> "fallback"

ensureInitializedBranch(sess) ==
    IF ~sess.exists THEN "initialize"
    ELSE CASE sess.status = "ready" -> "ready"
           [] sess.status = "error" -> "error"
           [] sess.status = "starting" -> "starting"
           [] sess.status = "stopped" -> "initialize"
           [] OTHER -> "fallback"

\* goto / act / extract / resize / reload is called: ensureInitialized,
\* lines 190-281, up to its first await.
OpCall(p, kind, arg) ==
    /\ proc[p].pc = "idle"
    /\ callBudget > 0
    /\ callBudget' = callBudget - 1
    /\ LET branch == ensureInitializedBranch(_session) IN
       IF branch = "initialize"
       THEN Initialize(p, ReinitOptions(_session), kind, arg)
       ELSE /\ proc' = [proc EXCEPT ![p] =
                   CASE branch = "ready" -> IssueOp(proc[p], kind, arg, _session)
                     [] branch = "error" ->
                          FailOp(proc[p], kind, arg, StoredErrorOrDefault(_session), _session)
                     [] branch = "starting" ->
                          [IdleProc EXCEPT !.pc = "polling", !.method = kind,
                                           !.id = _session.id, !.arg = arg,
                                           !.polls = 0, !.wake = now + PollIntervalMs]
                     [] OTHER -> FailOp(proc[p], kind, arg, NotReadyMessage, _session)]
            /\ UNCHANGED <<now, circuitBreakerState, _session, acked, startBudget, history,
                 _confirmationPromise, confirmations>>

\* The condition of the waiting loop, line 211, with n rounds made.
PollContinuesUnbounded(sess, n) == sess.status = "starting"

PollContinues(sess, n) == sess.status = "starting" /\ n < maxAttempts

\* One round of the loop of lines 211-214 ends: setTimeout(1000) fired.
PollWake(p) ==
    /\ proc[p].pc = "polling"
    /\ now >= proc[p].wake
    /\ LET pr == proc[p]
           n == pr.polls + 1
       IN IF PollContinues(_session, n)
          THEN proc' = [proc EXCEPT ![p] = [pr EXCEPT !.polls = n,
                                                     !.wake = now + PollIntervalMs]]
          ELSE IF _session.status = "ready"
          THEN proc' = [proc EXCEPT ![p] = IssueOp(pr, pr.method, pr.arg, _session)]
          ELSE IF _session.status = "error"
          THEN proc' = [proc EXCEPT ![p] =
                   [FailOp(pr, pr.method, pr.arg, StoredErrorOrDefault(_session), _session)
                      EXCEPT !.result.sessionId = pr.id]]
          ELSE proc' = [proc EXCEPT ![p] =
                   [FailOp(pr, pr.method, pr.arg, InitTimeoutMessage, _session)
                      EXCEPT !.result.sessionId = pr.id]]
    /\ UNCHANGED <<now, circuitBreakerState, _session, acked, startBudget, history, callBudget,
                 _confirmationPromise, confirmations>>

\* The remote call of an operation settles with resp: lines 289-293 and
\* the like.  The finished slot keeps the argument of the call.
OpResponse(p, resp) ==
    /\ proc[p].pc = "awaiting_op"
    /\ Answers(proc[p])
    /\ LET pr == proc[p]
           res == OpResult(pr.method, resp)
       IN IF res # OkResult /\ OpRetries(res.message)
          THEN /\ proc' = [proc EXCEPT ![p] = [pr EXCEPT !.attempts = @ + 1,
                                                         !.sentAt = now]]
               /\ _session' = _session
          ELSE /\ _session' = SessionAfterOp(_session, pr.method, pr.arg, res = OkResult)
               /\ proc' = [proc EXCEPT ![p] =
                      [IdleProc EXCEPT !.method = pr.method, !.arg = pr.arg,
                                       !.result = res]]
    /\ UNCHANGED <<now, circuitBreakerState, acked, startBudget, history, callBudget,
                 _confirmationPromise, confirmations>>

\* stop(), lines 353-363: up to the await of the remote stop.
StopCallAlwaysRemote(p) ==
    /\ proc[p].pc = "idle"
    /\ callBudget > 0
    /\ callBudget' = callBudget - 1
    /\ proc' = [proc EXCEPT ![p] = [IdleProc EXCEPT !.pc = "awaiting_stop",
                                                    !.method = "stop",
                                                    !.id = AgentName,
                                                    !.sentAt = now]]
    /\ _session' = IF _session.exists THEN [_session EXCEPT !.status = "stopping"]
                   ELSE _session
    /\ UNCHANGED <<now, circuitBreakerState, acked, startBudget, history,
                 _confirmationPromise, confirmations>>

StopCall(p) ==
    /\ proc[p].pc = "idle"
    /\ callBudget > 0
    /\ callBudget' = callBudget - 1
    /\ IF ~_session.exists
       THEN /\ proc' = [proc EXCEPT ![p] = [IdleProc EXCEPT !.method = "stop",
                                                           !.result = OkResult]]
            /\ _session' = _session
       ELSE /\ proc' = [proc EXCEPT ![p] = [IdleProc EXCEPT !.pc = "awaiting_stop",
                                                           !.method = "stop",
                                                           !.id = _session.id,
                                                           !.sentAt = now]]
            /\ _session' = [_session EXCEPT !.status = "stopping"]
    /\ UNCHANGED <<now, circuitBreakerState, acked, startBudget, history,
                 _confirmationPromise, confirmations>>

StopFailedMessage == [tmpl |-> "Failed to stop container: ", text |-> {}]

\* What stop() hands its caller when the remote stop settled with or without
\* success: stopBrowser's catchAll (browser.js 168-172) and the catch of
\* lines 364-367 swallow the failure.
StopResultRaises(ok) ==
    IF ok THEN OkResult
    ELSE [type |-> "BrowserError", message |-> StopFailedMessage, sessionId |-> "none"]

StopResult(ok) == OkResult

\* The remote stop settles, with success or not: lines 364-369.  A failure
\* is only logged (kept in err).
StopResponse(p, ok) ==
    /\ proc[p].pc = "awaiting_stop"
    /\ Answers(proc[p])
    /\ proc' = [proc EXCEPT ![p] =
          [IdleProc EXCEPT !.method = "stop", !.result = StopResult(ok),
                           !.err = IF ok THEN NoMessage ELSE StopFailedMessage]]
    /\ _session' = [_session EXCEPT !.status = "stopped"]
    /\ UNCHANGED <<now, circuitBreakerState, acked, startBudget, history, callBudget,
                 _confirmationPromise, confirmations>>

(***************************************************************************)
(* Specification of one BrowserAgent with overlapping calls                *)
(***************************************************************************)
\* No idle time: the clock advances from timer to timer.
TickToTimer ==
    /\ \E t \in AllTimers :
          /\ t > now
          /\ t <= MaxTime
          /\ \A u \in AllTimers : t <= u
          /\ NoTurnPending
          /\ now' = t
    /\ UNCHANGED <<circuitBreakerState, _session, proc, acked, startBudget, history, callBudget,
                 _confirmationPromise, confirmations>>

\* Answers of the remote start: success, a 4xx rejection naming an invalid
\* input, and a transport failure that is retried.
AgentResponses ==
    {[kind |-> "ok", text |-> {}], [kind |-> "http4xx", text |-> {"invalid"}],
     [kind |-> "throw", text |-> {"timeout"}]}

\* Answers of an operation's remote call: success, and a fetch that timed
\* out.
AgentOpResponses ==
    {[kind |-> "ok", text |-> {}], [kind |-> "throw", text |-> {"timeout"}]}

\* The breaker map is module state shared by every caller of startBrowser
\* in the process: when the agent is constructed no id has an entry, or the
\* agent's own name has one opened by five failed attempts made just before.
OpenedEntry == [present |-> TRUE, failures |-> CIRCUIT_BREAKER_THRESHOLD,
                lastFailure |-> 0, open |-> TRUE]

\* The slot that calls the session-scoped operations, stop, and initialize
\* with any id; the other slot calls initialize for the agent's own name.
AgentProcs == {"p1", "p2"}
OpProcs == {"p2"}
InitIds(p) == IF p \in OpProcs THEN Ids ELSE {AgentName}

InitAgent ==
    /\ now = 0
    /\ \E e \in {NoEntry, OpenedEntry} :
          circuitBreakerState = [i \in Ids |-> IF i = AgentName THEN e ELSE NoEntry]
    /\ _session = NoSession
    /\ proc = [p \in Procs |-> IdleProc]
    /\ acked = {}
    /\ startBudget = MaxAgentStartCalls
    /\ callBudget = MaxApiCalls
    /\ history = [i \in Ids |-> Untracked]
    /\ _confirmationPromise = 0
    /\ confirmations = [c \in ConfIds |-> NoConfirmation]

Next ==
    \/ \E p \in AgentProcs : \E id \in InitIds(p) : InitializeCall(p, id)
    \/ \E p \in OpProcs, kind \in OpKinds :
          \E arg \in (IF kind = "resize" THEN Viewports ELSE {"none"}) : OpCall(p, kind, arg)
    \/ \E p \in OpProcs : StopCall(p)
    \/ \E p \in AgentProcs, ok \in BOOLEAN : StopResponse(p, ok)
    \/ \E p \in AgentProcs : PollWake(p)
    \/ \E p \in AgentProcs, resp \in AgentOpResponses : OpResponse(p, resp)
    \/ \E p \in AgentProcs : StartRejected(p)
    \/ \E p \in AgentProcs, resp \in AgentResponses : StartResponse(p, resp)
    \/ \E p \in AgentProcs : RetryWake(p)
    \/ \E p \in AgentProcs : StartTimeout(p)
    \/ \E p \in AgentProcs, resp \in AgentResponses : OrphanSettles(p, resp)
    \/ TickToTimer

Spec == InitAgent /\ [][Next]_vars

(***************************************************************************)
(* confirm / resolveConfirmation                                           *)
(***************************************************************************)
\* DEFAULTS.CONFIRMATION_TIMEOUT_MS
CONFIRMATION_TIMEOUT_MS == 60000
\* options?.timeout as a caller passes it: absent, or 100 ms.
ConfirmOptions == {{}, {100}}
\* options?.timeout ?? DEFAULTS.CONFIRMATION_TIMEOUT_MS
ConfirmTimeoutMs(opt) ==
    IF opt = {} THEN CONFIRMATION_TIMEOUT_MS ELSE CHOOSE t \in opt : TRUE

SessionNotInitializedMessage == [tmpl |-> "Session not initialized", text |-> {}]

\* The guard of confirm, line 376: if (!this._session) throw.
ConfirmAllowedAlways(sess) == TRUE

ConfirmAllowed(sess) == sess.exists

\* promise.resolve(value): settles a promise that is still pending.  by and
\* resolvedAt record which path settled it and when.
Settle(cf, c, value, by) ==
    IF cf[c].state = "pending"
    THEN [cf EXCEPT ![c] = [@ EXCEPT !.state = "resolved", !.value = value,
                                     !.resolvedAt = now, !.by = by]]
    ELSE cf

\* confirm(prompt, options), lines 375-395, is called for the c-th time.
ConfirmCall(c, opt) ==
    /\ confirmations[c].state = "none"
    /\ \A d \in ConfIds : d < c => confirmations[d].state # "none"
    /\ now + ConfirmTimeoutMs(opt) <= MaxTime
    /\ IF ConfirmAllowed(_session)
       THEN /\ confirmations' = [confirmations EXCEPT ![c] =
                   [NoConfirmation EXCEPT !.state = "pending", !.timer = TRUE,
                                          !.deadline = now + ConfirmTimeoutMs(opt)]]
            /\ _confirmationPromise' = c
       ELSE /\ confirmations' = [confirmations EXCEPT ![c] =
                   [NoConfirmation EXCEPT !.state = "rejected",
                                          !.error = SessionNotInitializedMessage]]
            /\ _confirmationPromise' = _confirmationPromise
    /\ UNCHANGED <<now, circuitBreakerState, _session, proc, acked, startBudget,
                   callBudget, history>>

\* resolveConfirmation(value), lines 400-405.
ResolveConfirmation(value) ==
    /\ IF _confirmationPromise # 0
       THEN /\ confirmations' = Settle(confirmations, _confirmationPromise, value, "resolve")
            /\ _confirmationPromise' = 0
       ELSE UNCHANGED <<confirmations, _confirmationPromise>>
    /\ UNCHANGED <<now, circuitBreakerState, _session, proc, acked, startBudget,
                   callBudget, history>>

\* The setTimeout callback of the c-th confirm call runs, lines 388-393.
ConfirmTimer(c) ==
    /\ confirmations[c].timer
    /\ now >= confirmations[c].deadline
    /\ LET fired == [confirmations EXCEPT ![c] = [@ EXCEPT !.timer = FALSE]] IN
       IF _confirmationPromise # 0
       THEN /\ confirmations' = Settle(fired, _confirmationPromise, FALSE, "timer")
            /\ _confirmationPromise' = 0
       ELSE /\ confirmations' = fired
            /\ _confirmationPromise' = _confirmationPromise
    /\ UNCHANGED <<now, circuitBreakerState, _session, proc, acked, startBudget,
                   callBudget, history>>

(***************************************************************************)
(* Specification of confirmations on one BrowserAgent: one initialize that *)
(* the remote side accepts, rejects or leaves unanswered, and confirm /    *)
(* resolveConfirmation calls at any moment.  Timers that are due fire.     *)
(***************************************************************************)
ConfirmStartResponses ==
    {[kind |-> "ok", text |-> {}], [kind |-> "http4xx", text |-> {"invalid"}]}

InitConfirm ==
    /\ now = 0
    /\ circuitBreakerState = [i \in Ids |-> NoEntry]
    /\ _session = NoSession
    /\ proc = [p \in Procs |-> IdleProc]
    /\ acked = {}
    /\ startBudget = MaxConfirmStarts
    /\ callBudget = MaxConfirmStarts
    /\ history = [i \in Ids |-> Untracked]
    /\ _confirmationPromise = 0
    /\ confirmations = [c \in ConfIds |-> NoConfirmation]

NextConfirm ==
    \/ InitializeCall("p1", AgentName)
    \/ \E resp \in ConfirmStartResponses : StartResponse("p1", resp)
    \/ StartTimeout("p1")
    \/ \E resp \in ConfirmStartResponses : OrphanSettles("p1", resp)
    \/ \E c \in ConfIds, opt \in ConfirmOptions : ConfirmCall(c, opt)
    \/ \E value \in BOOLEAN : ResolveConfirmation(value)
    \/ \E c \in ConfIds : ConfirmTimer(c)
    \/ TickToTimer

SpecConfirm ==
    /\ InitConfirm
    /\ [][NextConfirm]_vars
    /\ WF_vars(TickToTimer)
    /\ WF_vars(StartTimeout("p1"))
    /\ \A c \in ConfIds : WF_vars(ConfirmTimer(c))

(***************************************************************************)
(* Specification of one BrowserAgent whose only caller initializes it:     *)
(* every answer of the remote start, whole retry sequences.                *)
(***************************************************************************)
InitSingle ==
    /\ now = 0
    /\ \E e \in {NoEntry, OpenedEntry} :
          circuitBreakerState = [i \in Ids |-> IF i = AgentName THEN e ELSE NoEntry]
    /\ _session = NoSession
    /\ proc = [p \in Procs |-> IdleProc]
    /\ acked = {}
    /\ startBudget = MaxInitStartCalls
    /\ callBudget = MaxInitCalls
    /\ history = [i \in Ids |-> NoHistory]
    /\ _confirmationPromise = 0
    /\ confirmations = [c \in ConfIds |-> NoConfirmation]

NextSingle ==
    \/ InitializeCall("p1", AgentName)
    \/ StartRejected("p1")
    \/ \E resp \in Responses : StartResponse("p1", resp)
    \/ RetryWake("p1")
    \/ StartTimeout("p1")
    \/ \E resp \in Responses : OrphanSettles("p1", resp)
    \/ TickToTimer

SpecSingle == InitSingle /\ [][NextSingle]_vars

(***************************************************************************)
(* Specification of one BrowserAgent initialized again and again by one    *)
(* caller, with idle time between the calls.                               *)
(***************************************************************************)
InitAgain ==
    /\ now = 0
    /\ circuitBreakerState = [i \in Ids |-> NoEntry]
    /\ _session = NoSession
    /\ proc = [p \in Procs |-> IdleProc]
    /\ acked = {}
    /\ startBudget = MaxAgainStartCalls
    /\ callBudget = MaxAgainCalls
    /\ history = [i \in Ids |-> NoHistory]
    /\ _confirmationPromise = 0
    /\ confirmations = [c \in ConfIds |-> NoConfirmation]

NextAgain ==
    \/ InitializeCall("p1", AgentName)
    \/ StartRejected("p1")
    \/ \E resp \in AgentResponses : StartResponse("p1", resp)
    \/ RetryWake("p1")
    \/ StartTimeout("p1")
    \/ \E resp \in AgentResponses : OrphanSettles("p1", resp)
    \/ Tick

SpecAgain == InitAgain /\ [][NextAgain]_vars

(***************************************************************************)
(* Specification of two callers of startBrowser, each with a session id of *)
(* its own, interleaved in every way.                                      *)
(***************************************************************************)
\* The id each caller starts.
PairId(p) == IF p = "p1" THEN "s1" ELSE "s2"
PairProcs == {"p1", "p2"}

InitPair ==
    /\ now = 0
    /\ \E e \in {NoEntry, OpenedEntry} :
          circuitBreakerState = [i \in Ids |-> IF i = "s1" THEN e ELSE NoEntry]
    /\ _session = NoSession
    /\ proc = [p \in Procs |-> IdleProc]
    /\ acked = {}
    /\ startBudget = MaxPairStartCalls
    /\ callBudget = 0
    /\ history = [i \in Ids |-> Untracked]
    /\ _confirmationPromise = 0
    /\ confirmations = [c \in ConfIds |-> NoConfirmation]

NextPair ==
    \/ \E p \in PairProcs : StartBrowserCall(p, PairId(p))
    \/ \E p \in PairProcs : StartRejected(p)
    \/ \E p \in PairProcs, resp \in AgentResponses : StartResponse(p, resp)
    \/ \E p \in PairProcs : RetryWake(p)
    \/ \E p \in PairProcs : StartTimeout(p)
    \/ \E p \in PairProcs, resp \in AgentResponses : OrphanSettles(p, resp)
    \/ Tick

SpecPair == InitPair /\ [][NextPair]_vars

(***************************************************************************)
(* The withBrowser mixin (part_005): initialize starts the browser         *)
(* detached and returns; the operations wait in ensureInitialized.         *)
(***************************************************************************)
\* The slot of the mixin's caller, and the slots that follow the detached
\* start sequences (at most two at once).
MixinCaller == "p1"
MixinStartSlots == {"p2", "p3"}
FreeStartSlot == IF proc["p2"].pc = "idle" THEN "p2" ELSE "p3"

\* The operations of the mixin that call ensureInitialized.
MixinOpKinds == {"act", "goto", "extract", "reload"}

\* The options ensureInitialized passes to initialize, lines 290-293: the
\* context's session id and the worker URL (here: the stored one, else the
\* default).
MixinReinitOptions ==
    [sessionId |-> AgentName, viewport |-> "none", colorScheme |-> "none",
     workerUrl |-> IF _workerUrl # "" THEN _workerUrl ELSE DEFAULT_WORKER_URL]

\* initialize(options), lines 329-388: the session is replaced by a fresh
\* record in 'starting'; startBrowser is run detached, followed by slot q.
withBrowserInitialize(q, options) ==
    LET id == options.sessionId
        allowed == checkCircuitBreaker(circuitBreakerState, id, now) IN
    /\ proc[q].pc = "idle"
    /\ allowed => startBudget > 0
    /\ _session' = NewSession(options)
    /\ circuitBreakerState' = checkCircuitBreakerEffect(circuitBreakerState, id, now)
    /\ startBudget' = IF allowed THEN startBudget - 1 ELSE startBudget
    /\ UNCHANGED <<now, acked, history, _confirmationPromise, confirmations>>

\* A caller invokes initialize({ sessionId }): it returns once the start
\* has been launched.
withBrowserInitializeCall(p, q) ==
    /\ proc[p].pc = "idle"
    /\ callBudget > 0
    /\ callBudget' = callBudget - 1
    /\ withBrowserInitialize(q, NoOptions(AgentName))
    /\ proc' = [proc EXCEPT
          ![p] = [IdleProc EXCEPT !.method = "initialize", !.result = OkResult],
          ![q] = BeginStart(AgentName, "withBrowser.initialize", "none",
                            checkCircuitBreaker(circuitBreakerState, AgentName, now))]

\* act / goto / extract / reload is called: ensureInitialized, lines
\* 287-298, up to its first await of the timer.  Whatever the status is,
\* unless it is 'ready', initialize is called.
withBrowserOpCall(p, q, kind) ==
    /\ proc[p].pc = "idle"
    /\ callBudget > 0
    /\ callBudget' = callBudget - 1
    /\ IF _session.exists /\ _session.status = "ready"
       THEN /\ proc' = [proc EXCEPT ![p] = IssueOp(proc[p], kind, "none", _session)]
            /\ UNCHANGED <<now, circuitBreakerState, _session, acked, startBudget,
                           history, _confirmationPromise, confirmations>>
       ELSE /\ withBrowserInitialize(q, MixinReinitOptions)
            /\ proc' = [proc EXCEPT
                  ![p] = [IdleProc EXCEPT !.pc = "polling", !.method = kind,
                                          !.id = AgentName, !.polls = 0,
                                          !.wake = now + PollIntervalMs],
                  ![q] = BeginStart(AgentName, "withBrowser.initialize", "none",
                                    checkCircuitBreaker(circuitBreakerState, AgentName, now))]

\* The condition of the waiting loop, line 297, with n rounds made.
withBrowserPollContinues(sess, n) == sess.status # "ready" /\ n < maxAttempts

\* One round of the loop of lines 297-304 ends; after the loop, lines
\* 305-310, and the remote call of the operation.
withBrowserPollWake(p) ==
    /\ proc[p].pc = "polling"
    /\ now >= proc[p].wake
    /\ LET pr == proc[p]
           n == pr.polls + 1
       IN IF withBrowserPollContinues(_session, n)
          THEN proc' = [proc EXCEPT ![p] = [pr EXCEPT !.polls = n,
                                                     !.wake = now + PollIntervalMs]]
          ELSE IF _session.status = "ready"
          THEN proc' = [proc EXCEPT ![p] = IssueOp(pr, pr.method, pr.arg, _session)]
          ELSE proc' = [proc EXCEPT ![p] =
                   [IdleProc EXCEPT !.method = pr.method,
                                    !.result = SessionNotConnectedError(InitTimeoutMessage,
                                                                        AgentName)]]
    /\ UNCHANGED <<now, circuitBreakerState, _session, acked, startBudget, history, callBudget,
                 _confirmationPromise, confirmations>>

\* The remote call of an operation settles with resp, lines 396-400 and
\* the like: the rejection is passed on, a success refreshes lastActivity.
withBrowserOpResponse(p, resp) ==
    /\ proc[p].pc = "awaiting_op"
    /\ Answers(proc[p])
    /\ LET pr == proc[p]
           res == OpResult(pr.method, resp)
       IN /\ _session' = IF res = OkResult THEN [_session EXCEPT !.lastActivity = now]
                         ELSE _session
          /\ proc' = [proc EXCEPT ![p] =
                [IdleProc EXCEPT !.method = pr.method, !.result = res]]
    /\ UNCHANGED <<now, circuitBreakerState, acked, startBudget, history, callBudget,
                 _confirmationPromise, confirmations>>

InitMixin ==
    /\ now = 0
    /\ \E e \in {NoEntry, OpenedEntry} :
          circuitBreakerState = [i \in Ids |-> IF i = AgentName THEN e ELSE NoEntry]
    /\ _session = NoSession
    /\ proc = [p \in Procs |-> IdleProc]
    /\ acked = {}
    /\ startBudget = MaxMixinStartCalls
    /\ callBudget = MaxMixinCalls
    /\ history = [i \in Ids |-> Untracked]
    /\ _confirmationPromise = 0
    /\ confirmations = [c \in ConfIds |-> NoConfirmation]

NextMixin ==
    \/ withBrowserInitializeCall(MixinCaller, FreeStartSlot)
    \/ \E kind \in MixinOpKinds : withBrowserOpCall(MixinCaller, FreeStartSlot, kind)
    \/ withBrowserPollWake(MixinCaller)
    \/ \E resp \in AgentOpResponses : withBrowserOpResponse(MixinCaller, resp)
    \/ \E q \in MixinStartSlots : StartRejected(q)
    \/ \E q \in MixinStartSlots, resp \in AgentResponses : StartResponse(q, resp)
    \/ \E q \in MixinStartSlots : RetryWake(q)
    \/ \E q \in MixinStartSlots : StartTimeout(q)
    \/ \E q \in MixinStartSlots, resp \in AgentResponses : OrphanSettles(q, resp)
    \/ TickToTimer

SpecMixin == InitMixin /\ [][NextMixin]_vars

(***************************************************************************)
(* Specification of one BrowserAgent used by one caller that awaits each   *)
(* call before the next: initialize with options, the session-scoped       *)
(* operations with every answer of their remote call, and stop.            *)
(***************************************************************************)
\* The options a caller passes to initialize: any id, the colour scheme and
\* the base address given or not; the viewport is left to resize.
InitOptions ==
    [sessionId : Ids, viewport : {"none"}, colorScheme : {"none", "light"},
     workerUrl : {"", "https://agent.example"}]

InitOps ==
    /\ now = 0
    /\ circuitBreakerState = [i \in Ids |-> NoEntry]
    /\ _session = NoSession
    /\ proc = [p \in Procs |-> IdleProc]
    /\ acked = {}
    /\ startBudget = MaxOpsStartCalls
    /\ callBudget = MaxOpsCalls
    /\ history = [i \in Ids |-> Untracked]
    /\ _confirmationPromise = 0
    /\ confirmations = [c \in ConfIds |-> NoConfirmation]

NextOps ==
    \/ \E options \in InitOptions : InitializeWith("p2", options)
    \/ \E kind \in OpKinds :
          \E arg \in (IF kind = "resize" THEN Viewports ELSE {"none"}) : OpCall("p2", kind, arg)
    \/ \E resp \in OpResponses : OpResponse("p2", resp)
    \/ StopCall("p2")
    \/ \E ok \in BOOLEAN : StopResponse("p2", ok)
    \/ \E resp \in AgentResponses : StartResponse("p2", resp)
    \/ RetryWake("p2")
    \/ StartTimeout("p2")
    \/ \E resp \in AgentResponses : OrphanSettles("p2", resp)
    \/ TickToTimer

SpecOps == InitOps /\ [][NextOps]_vars

(***************************************************************************)
(* Properties of the start executor                                        *)
(***************************************************************************)
\* C1: a start failure whose message isNonRetryableError classifies as fatal
\* ends the sequence: no slot waits to retry after such a failure.
C1_FatalFailureNotRetried ==
    \A p \in Procs :
        proc[p].pc = "retry_wait" => ~isNonRetryableError(proc[p].err)

\* C2: after 5 consecutive failed starts for an id that all lie within the
\* failure window, a startBrowser issued now is rejected with the
\* circuit-open error and issues no remote call.
C2_SixthStartRejected ==
    [][\A p \in Procs, id \in Ids :
          ( /\ StartBrowserCall(p, id)
            /\ history[id].failedStarts >= CIRCUIT_BREAKER_THRESHOLD
            /\ now - history[id].since <= CIRCUIT_BREAKER_WINDOW_MS )
          => /\ proc'[p].pc = "start_rejected"
             /\ startBudget' = startBudget]_vars

\* C3: while the breaker of an id is open and now - lastFailure does not
\* exceed the cooldown, every start for the id is rejected and the entry
\* stays as it is.
C3_OpenUntilCooldown ==
    [][\A p \in Procs, id \in Ids :
          ( /\ StartBrowserCall(p, id)
            /\ circuitBreakerState[id].present
            /\ circuitBreakerState[id].open
            /\ now - circuitBreakerState[id].lastFailure <= CIRCUIT_BREAKER_COOLDOWN_MS )
          => /\ proc'[p].pc = "start_rejected"
             /\ circuitBreakerState'[id] = circuitBreakerState[id]]_vars

\* C4: a success removes the entry of the id entirely: with no failed attempt
\* since the last success there is no entry, and the breaker is open only if
\* at least 5 attempts failed since the last success, whatever the count
\* before it.
C4_SuccessClearsEntry ==
    \A id \in Ids :
        /\ history[id].failedAttempts = 0 => ~circuitBreakerState[id].present
        /\ circuitBreakerState[id].open
              => history[id].failedAttempts >= CIRCUIT_BREAKER_THRESHOLD

\* fail x k, success, fail x m with k < 5, m < 5, k + m >= 5: still closed.
C4_Witness ==
    \E id \in Ids :
        /\ history[id].cleared < CIRCUIT_BREAKER_THRESHOLD
        /\ circuitBreakerState[id].present
        /\ circuitBreakerState[id].failures = history[id].failedAttempts
        /\ circuitBreakerState[id].failures < CIRCUIT_BREAKER_THRESHOLD
        /\ history[id].cleared + circuitBreakerState[id].failures >= CIRCUIT_BREAKER_THRESHOLD
        /\ ~circuitBreakerState[id].open

(***************************************************************************)
(* Properties of the BrowserAgent session lifecycle                        *)
(***************************************************************************)
\* The slot is inside initialize(): its start sequence has not ended.
InStart(pr) == pr.pc \in StartPcs \cup {"start_rejected"}

\* C5: when the start sequence of an initialize() ends, the session is not
\* left in 'starting'; when it ends in failure (fatal error, deadline,
\* circuit open) the status is 'error', the failure message is stored on
\* the session and the caller gets a ContainerStartError carrying it.
C5_InitializeFailureStored ==
    [][\A p \in Procs :
          (InStart(proc[p]) /\ ~InStart(proc'[p]) /\ proc[p].method # "startBrowser")
          => /\ _session'.status # "starting"
             /\ IF proc'[p].result.type = "ContainerStartError"
                THEN /\ _session'.status = "error"
                     /\ _session'.error # NoMessage
                     /\ _session'.error = proc'[p].result.message
                ELSE _session'.status = "ready"]_vars

\* An initialize() that ended at its deadline: ContainerStartError thrown,
\* status 'error', the timeout message stored.
C5_Witness ==
    \E p \in Procs :
        /\ proc[p].method = "initialize"
        /\ proc[p].result = ContainerStartError(StartTimeoutMessage, _session.id)
        /\ _session.status = "error"
        /\ _session.error = StartTimeoutMessage

\* C6: the session's status is 'ready' only if a remote start call issued
\* for the session's id has been acknowledged as successful.
C6_ReadyOnlyAfterAck ==
    (_session.exists /\ _session.status = "ready") => _session.id \in acked

\* C7: the stored error detail is non-empty if and only if the status is
\* 'error'.
C7_ErrorDetailIffError ==
    _session.exists => ((_session.error # NoMessage) <=> (_session.status = "error"))

\* C8: at most one start sequence is in flight for a session id.
C8_OneStartInFlight ==
    \A id \in Ids :
        Cardinality({p \in Procs : proc[p].pc \in StartPcs /\ proc[p].id = id}) <= 1

\* C9: an operation called while the status is 'starting' only polls: the
\* call and every round of its waiting loop leave the session, the breaker
\* and the number of remote start calls alone, and the slot never enters
\* initialize().
C9_StartingOnlyPolls ==
    [][\A p \in Procs :
          /\ ( /\ \E kind \in OpKinds, arg \in Viewports \cup {"none"} : OpCall(p, kind, arg)
               /\ status = "starting" )
             => /\ proc'[p].pc = "polling"
                /\ UNCHANGED <<_session, circuitBreakerState, startBudget>>
          /\ (proc[p].pc = "polling" /\ proc'[p] # proc[p])
             => /\ proc'[p].pc \in {"polling", "awaiting_op", "idle"}
                /\ UNCHANGED <<_session, circuitBreakerState, startBudget>>]_vars

\* An operation is in its second round of polling while the start sequence
\* of another call is under way.
C9_Witness ==
    \E p, q \in Procs :
        /\ proc[p].pc = "polling"
        /\ proc[p].polls >= 1
        /\ proc[q].pc \in StartPcs
        /\ status = "starting"

\* C10: an operation called while the status is 'error' fails at once with
\* a SessionNotConnectedError carrying the stored error, issues no remote
\* call and leaves the session unchanged.
C10_ErrorFailsImmediately ==
    [][\A p \in Procs, kind \in OpKinds, arg \in Viewports \cup {"none"} :
          (OpCall(p, kind, arg) /\ _session.exists /\ _session.status = "error")
          => /\ proc'[p].pc = "idle"
             /\ proc'[p].result = SessionNotConnectedError(_session.error, _session.id)
             /\ UNCHANGED <<_session, circuitBreakerState, startBudget>>]_vars

\* An operation has failed on a session in 'error' with the stored error,
\* which is not the default message.
C10_Witness ==
    \E p \in Procs :
        /\ proc[p].pc = "idle"
        /\ proc[p].method \in OpKinds
        /\ _session.exists
        /\ _session.status = "error"
        /\ proc[p].result = SessionNotConnectedError(_session.error, _session.id)
        /\ _session.error # BrowserInitFailedMessage

\* C11: resize called when no session exists fails with
\* SessionNotConnectedError and makes no remote call, neither start nor
\* resize.
C11_AbsentResizeFails ==
    [][\A p \in Procs, arg \in Viewports :
          (OpCall(p, "resize", arg) /\ ~_session.exists)
          => /\ proc'[p].pc = "idle"
             /\ proc'[p].result.type = "SessionNotConnectedError"
             /\ UNCHANGED <<_session, startBudget>>]_vars

\* C12: stop() on an existing session first sets the status to 'stopping';
\* when its remote stop settles, with success or not, stop() returns
\* without raising and the status is 'stopped'.
C12_StopEndsStopped ==
    [][\A p \in Procs :
          /\ (StopCall(p) /\ _session.exists)
             => (_session'.status = "stopping" /\ proc'[p].pc = "awaiting_stop")
          /\ (proc[p].pc = "awaiting_stop" /\ proc'[p] # proc[p])
             => /\ proc'[p].pc = "idle"
                /\ proc'[p].result = OkResult
                /\ _session'.status = "stopped"]_vars

\* A stop() whose remote stop failed has returned; the status is 'stopped'.
C12_Witness ==
    \E p \in Procs :
        /\ proc[p].pc = "idle"
        /\ proc[p].method = "stop"
        /\ proc[p].err = StopFailedMessage
        /\ proc[p].result = OkResult
        /\ _session.exists
        /\ _session.status = "stopped"

(***************************************************************************)
(* Properties of confirmations                                             *)
(***************************************************************************)
\* C13: a confirmation that its timeout resolves gets false, and not before
\* its own deadline (the call time plus its timeout, 60000 ms by default);
\* a confirmation still pending has its own timeout ahead.
C13_TimeoutResolvesAtDeadline ==
    \A c \in ConfIds :
        /\ (confirmations[c].state = "resolved" /\ confirmations[c].by = "timer")
               => /\ confirmations[c].value = FALSE
                  /\ confirmations[c].resolvedAt >= confirmations[c].deadline
        /\ confirmations[c].state = "pending" => confirmations[c].timer

\* C14: a confirmation is resolved once, and then the pending slot is empty;
\* a resolveConfirmation call with an empty slot, or the expiry of the timer
\* of a confirmation that is already resolved, changes nothing.
C14_ResolvedExactlyOnce ==
    [][/\ \A c \in ConfIds :
             /\ confirmations[c].state = "resolved"
                   => (confirmations'[c].state = "resolved"
                       /\ confirmations'[c].value = confirmations[c].value)
             /\ (confirmations[c].state = "pending" /\ confirmations'[c].state = "resolved")
                   => _confirmationPromise' = 0
             /\ (ConfirmTimer(c) /\ confirmations[c].state = "resolved")
                   => /\ _confirmationPromise' = _confirmationPromise
                      /\ \A d \in ConfIds : confirmations'[d].state = confirmations[d].state
       /\ \A value \in BOOLEAN :
             (ResolveConfirmation(value) /\ _confirmationPromise = 0)
                => UNCHANGED <<_confirmationPromise, confirmations>>]_vars

\* C15: every confirmation that is pending is eventually resolved.
C15_ConfirmEventuallyResolves ==
    \A c \in ConfIds :
        (confirmations[c].state = "pending") ~> (confirmations[c].state = "resolved")

\* C16: confirm called when no session exists fails at once with
\* SessionNotConnectedError('Session not initialized'), arms no timer and
\* leaves the pending slot as it was.
C16_ConfirmWithoutSessionFails ==
    [][\A c \in ConfIds, opt \in ConfirmOptions :
          (ConfirmCall(c, opt) /\ ~_session.exists)
          => /\ confirmations'[c].state = "rejected"
             /\ confirmations'[c].error = SessionNotInitializedMessage
             /\ ~confirmations'[c].timer
             /\ ConfirmTimers' = ConfirmTimers
             /\ _confirmationPromise' = _confirmationPromise]_vars

\* A confirm was rejected for want of a session, and one made after
\* initialize is pending.
C16_Witness ==
    /\ confirmations[1].state = "rejected"
    /\ confirmations[1].error = SessionNotInitializedMessage
    /\ ~confirmations[1].timer
    /\ confirmations[2].state = "pending"
    /\ _confirmationPromise = 2

(***************************************************************************)
(* Properties of whole start sequences                                     *)
(***************************************************************************)
\* C17: one start sequence issues at most 20 remote start calls, the first
\* attempt and all retries counted.
C17_AtMostTwentyCalls ==
    \A p \in Procs : proc[p].attempts <= 20

\* C18: a start failure whose message matches neither the retryable nor the
\* fatal patterns is retried (while the schedule has retries left).
C18_AmbiguousFailureRetried ==
    [][\A p \in Procs, resp \in Responses :
          ( /\ StartResponse(p, resp)
            /\ resp.kind # "ok"
            /\ ~isRetryableError(StartErrorMessage(resp))
            /\ ~isNonRetryableError(StartErrorMessage(resp))
            /\ proc[p].attempts - 1 < RetryRecurs )
          => proc'[p].pc = "retry_wait"]_vars

\* C19: when the remote start answers with a 4xx status, whatever the body
\* text, the sequence ends with that attempt: no retry, status 'error', and
\* the stored error is the message holding the remote's text.
C19_ClientErrorEndsSequence ==
    [][\A p \in Procs, resp \in Responses :
          (StartResponse(p, resp) /\ resp.kind = "http4xx")
          => /\ proc'[p].pc = "idle"
             /\ _session'.status = "error"
             /\ _session'.error = StartErrorMessage(resp)]_vars

\* C20: when a remote start call of initialize succeeds after n calls of
\* the sequence failed, that call is the (n+1)-th of the sequence,
\* initialize returns with status 'ready' and the id has no breaker entry.
C20_RetryThenSuccess ==
    [][\A p \in Procs :
          ( /\ proc[p].pc = "awaiting_start"
            /\ proc[p].method = "initialize"
            /\ proc'[p].pc = "idle"
            /\ proc'[p].result = OkResult )
          => /\ proc[p].attempts = proc[p].failed + 1
             /\ _session'.status = "ready"
             /\ ~circuitBreakerState'[proc[p].id].present]_vars

\* initialize has returned with status 'ready' after two failed calls and
\* a third that succeeded; the two recorded failures are gone.
C20_Witness ==
    \E p \in Procs :
        /\ proc[p].pc = "idle"
        /\ proc[p].method = "initialize"
        /\ proc[p].result = OkResult
        /\ _session.status = "ready"
        /\ history[_session.id].cleared = 2
        /\ startBudget = MaxInitStartCalls - 3
        /\ ~circuitBreakerState[_session.id].present

(***************************************************************************)
(* Properties of the session record                                        *)
(***************************************************************************)
\* C21: lastActivity is set only by a successful session-scoped operation:
\* a step that gives the session a lastActivity value (a record where there
\* was none, or another value) is the success of an operation's remote
\* call, so after initialize alone the session has no lastActivity.
C21_LastActivityOnlyByOperations ==
    [][(_session'.exists
          /\ (~_session.exists \/ _session'.lastActivity # _session.lastActivity))
       => \E p \in Procs : /\ proc[p].pc = "awaiting_op"
                           /\ proc'[p].result = OkResult]_vars

\* C22: 'stopped' and 'error' are terminal: a step that changes the status
\* of a session that is 'stopped' or 'error' is the start of an initialize
\* (a slot enters startBrowser and the session is the fresh record).
C22_StoppedAndErrorTerminal ==
    [][(_session.exists /\ _session.status \in {"stopped", "error"}
          /\ _session'.status # _session.status)
       => \E p \in Procs : /\ proc[p].pc = "idle"
                           /\ InStart(proc'[p])
                           /\ _session'.status = "starting"]_vars

(***************************************************************************)
(* Properties of the session-scoped operations                             *)
(***************************************************************************)
\* C23: an operation issues one remote call per invocation and never
\* repeats it: the slot starts to await it with one call made, and when the
\* call settles, whatever the failure text, the operation returns with
\* success or with its typed error.
C23_OneRemoteCallPerOperation ==
    [][\A p \in Procs :
          /\ (proc[p].pc # "awaiting_op" /\ proc'[p].pc = "awaiting_op")
                => proc'[p].attempts = 1
          /\ (proc[p].pc = "awaiting_op" /\ proc'[p] # proc[p])
                => /\ proc[p].attempts = 1
                   /\ proc'[p].pc = "idle"
                   /\ proc'[p].result.type \in {"ok", OpErrorType(proc[p].method)}]_vars

\* An operation has failed with a timeout text, which the start operation
\* would retry, and has returned its typed error.
C23_Witness ==
    \E p \in Procs :
        /\ proc[p].pc = "idle"
        /\ proc[p].method \in OpKinds
        /\ proc[p].result.type = OpErrorType(proc[p].method)
        /\ isRetryableError(proc[p].result.message)
        /\ _session.status = "ready"

\* C24: when the remote call of an operation fails the session record stays
\* as it is; when it succeeds lastActivity becomes the current time, resize
\* replaces the stored viewport, and nothing else changes.
C24_FailedOperationLeavesSession ==
    [][\A p \in Procs :
          (proc[p].pc = "awaiting_op" /\ proc'[p] # proc[p])
          => IF proc'[p].result = OkResult
             THEN _session' = [_session EXCEPT
                     !.lastActivity = now,
                     !.viewport = IF proc[p].method = "resize" THEN proc[p].arg ELSE @]
             ELSE _session' = _session]_vars

\* A resize to another viewport has failed at a time after the session's
\* last activity: viewport and lastActivity are the old ones.
C24_Witness ==
    \E p \in Procs :
        /\ proc[p].pc = "idle"
        /\ proc[p].method = "resize"
        /\ proc[p].result.type = "BrowserError"
        /\ proc[p].arg # _session.viewport
        /\ _session.lastActivity < now
        /\ _session.status = "ready"

\* C25: the error extract reports when the caller's schema rejects a
\* returned payload is of another type than every error it reports for a
\* failed remote call.
C25_ValidationFailureDistinct ==
    [][\A p \in Procs, resp \in OpResponses :
          (OpResponse(p, resp) /\ proc[p].method = "extract" /\ resp.kind = "schemaMismatch")
          => proc'[p].result.type \notin
                {"ok"} \cup {OpResult("extract", r).type :
                               r \in {x \in OpResponses : x.kind \in {"notOk", "throw"}}}]_vars

\* C27: an operation called with no session, or on a 'stopped' one, first
\* runs initialize with the configuration the session holds (id, viewport,
\* colour scheme, base address; the defaults without a session); the remote
\* call of an operation is issued only with the status 'ready', for the
\* session's id.
C27_ReinitializeReusesConfiguration ==
    [][\A p \in Procs :
          /\ ( /\ proc[p].pc = "idle"
               /\ proc'[p] # proc[p]
               /\ proc'[p].method \in OpKinds
               /\ (~_session.exists \/ _session.status = "stopped") )
                => /\ InStart(proc'[p])
                   /\ _session'.status = "starting"
                   /\ IF _session.exists
                      THEN /\ _session'.id = _session.id
                           /\ _session'.viewport = _session.viewport
                           /\ _session'.colorScheme = _session.colorScheme
                           /\ _session'.viewUrl = _session.viewUrl
                      ELSE /\ _session'.id = AgentName
                           /\ _session'.viewport = DefaultViewport
                           /\ _session'.colorScheme = DefaultColorScheme
                           /\ _session'.viewUrl = DEFAULT_WORKER_URL
          /\ (proc[p].pc # "awaiting_op" /\ proc'[p].pc = "awaiting_op")
                => (_session'.status = "ready" /\ proc'[p].id = _session'.id)]_vars

\* An operation on a stopped session is inside initialize: the fresh session
\* has the id, colour scheme and base address of the first initialize and
\* the viewport a resize left.
C27_Witness ==
    \E p \in Procs :
        /\ proc[p].pc = "awaiting_start"
        /\ proc[p].method \in OpKinds
        /\ _session.status = "starting"
        /\ _session.id = "s2"
        /\ _session.viewport = "800x600"
        /\ _session.colorScheme = "light"
        /\ _session.viewUrl = "https://agent.example"

\* C28: initialize called on a session in 'error' or 'stopped' replaces it
\* by a fresh record: status 'starting', no error detail, no endpoint, the
\* id of the call and the default viewport; the call then runs startBrowser.
C28_InitializeAgainStartsFresh ==
    [][\A p \in Procs :
          ( /\ proc[p].pc = "idle"
            /\ proc'[p] # proc[p]
            /\ proc'[p].method = "initialize"
            /\ _session.exists
            /\ _session.status \in {"error", "stopped"} )
          => /\ _session'.status = "starting"
             /\ _session'.error = NoMessage
             /\ _session'.wsEndpoint = "none"
             /\ _session'.id = proc'[p].id
             /\ _session'.viewport = DefaultViewport
             /\ InStart(proc'[p])]_vars

\* The second call of a behaviour is an initialize, made after a first call
\* whose start failed and left 'error': the session is fresh.
C28_Witness ==
    \E p \in Procs :
        /\ callBudget = MaxOpsCalls - 2
        /\ acked = {}
        /\ proc[p].pc = "awaiting_start"
        /\ proc[p].method = "initialize"
        /\ _session.status = "starting"
        /\ _session.error = NoMessage
        /\ _session.wsEndpoint = "none"

\* C26: the wait of an operation on a session in 'starting' ends after at
\* most 60 rounds of 1000 ms: the operation goes on to its remote call if
\* the status is 'ready' then, and else fails with SessionNotConnectedError,
\* carrying the stored error if the status is 'error' and the timeout
\* message otherwise.
C26_StartingWaitBounded ==
    [][\A p \in Procs :
          /\ proc[p].pc = "polling"
                => (proc[p].polls < 60 /\ proc[p].wake <= now + 1000)
          /\ (proc[p].pc = "polling" /\ proc'[p].pc # "polling")
                => IF _session.status = "ready"
                   THEN proc'[p].pc = "awaiting_op"
                   ELSE /\ proc'[p].pc = "idle"
                        /\ proc'[p].result.type = "SessionNotConnectedError"
                        /\ proc'[p].result.message =
                              IF _session.status = "error" THEN _session.error
                              ELSE InitTimeoutMessage]_vars

\* An operation gave up after its 60th round, 60000 ms after the initialize
\* whose start is still unanswered.
C26_Witness ==
    \E p, q \in Procs :
        /\ proc[p].pc = "idle"
        /\ proc[p].method \in OpKinds
        /\ proc[p].result.type = "SessionNotConnectedError"
        /\ proc[p].result.message = InitTimeoutMessage
        /\ proc[q].pc = "awaiting_start"
        /\ _session.status = "starting"
        /\ now = 60000

(***************************************************************************)
(* Properties of the end of a start sequence                               *)
(***************************************************************************)
\* C29: a start sequence never outlasts 120000 ms: at that instant, with
\* retries left or not, it ends with the ContainerStartError of the
\* deadline; and a failure with no retry left ends it before the deadline.
C29_DeadlineEndsSequence ==
    [][\A p \in Procs :
          /\ proc[p].pc \in StartPcs => now <= proc[p].seqStart + 120000
          /\ ( /\ proc[p].pc \in StartPcs
               /\ now >= proc[p].seqStart + 120000
               /\ proc'[p] # proc[p] )
             => /\ proc'[p].pc \notin StartPcs
                /\ proc'[p].result = ContainerStartError(StartTimeoutMessage, proc[p].id)
          /\ ( /\ proc[p].pc = "awaiting_start"
               /\ proc[p].failed = RetryRecurs
               /\ now < proc[p].seqStart + 120000
               /\ proc'[p] # proc[p]
               /\ proc'[p].result # OkResult )
             => /\ proc'[p].pc = "idle"
                /\ proc'[p].result.type = "ContainerStartError"
                /\ proc'[p].result.message # StartTimeoutMessage]_vars

\* initialize ended at the deadline after one failed call and a retry that
\* was never answered: 19 retries were left.
C29_Witness ==
    \E p \in Procs :
        /\ proc[p].method = "initialize"
        /\ proc[p].pc \in {"orphaned", "idle"}
        /\ proc[p].result = ContainerStartError(StartTimeoutMessage, _session.id)
        /\ startBudget = MaxInitStartCalls - 2
        /\ now = 120000

\* C30: whenever a start sequence ends in failure the caller gets a
\* ContainerStartError with the session id of the call; when it is an
\* answer of the remote start that ends it (fatal failure, or no retry
\* left), the error has that failure's message and carries it as cause.
C30_StartFailureIsContainerStartError ==
    [][\A p \in Procs :
          (InStart(proc[p]) /\ ~InStart(proc'[p]) /\ proc'[p].result # OkResult)
          => /\ proc'[p].result.type = "ContainerStartError"
             /\ proc'[p].result.sessionId = proc[p].id
             /\ \A resp \in Responses :
                   StartResponse(p, resp)
                   => /\ proc'[p].result.message = StartErrorMessage(resp)
                      /\ proc'[p].err = StartErrorMessage(resp)]_vars

\* initialize ended when the 21st call failed: the error carries the last
\* failure.
C30_Witness ==
    \E p \in Procs :
        /\ proc[p].pc = "idle"
        /\ proc[p].method = "initialize"
        /\ proc[p].result.type = "ContainerStartError"
        /\ proc[p].result.sessionId = _session.id
        /\ proc[p].err = proc[p].result.message
        /\ isRetryableError(proc[p].err)
        /\ startBudget = MaxInitStartCalls - (RetryRecurs + 1)

(***************************************************************************)
(* Properties of stop                                                      *)
(***************************************************************************)
\* C32: stop() called when no session exists returns at once without a
\* remote call: no session is created, the breaker and the number of remote
\* calls stay as they are, and the observable status is still 'stopped'.
C32_StopWithoutSessionIsNoOp ==
    [][\A p \in Procs :
          (StopCall(p) /\ ~_session.exists)
          => /\ proc'[p].pc = "idle"
             /\ proc'[p].result = OkResult
             /\ ~_session'.exists
             /\ status = "stopped"
             /\ status' = "stopped"
             /\ UNCHANGED <<circuitBreakerState, startBudget, acked>>]_vars

\* stop() has returned on an agent that never had a session.
C32_Witness ==
    \E p \in Procs :
        /\ proc[p].pc = "idle"
        /\ proc[p].method = "stop"
        /\ proc[p].result = OkResult
        /\ ~_session.exists
        /\ status = "stopped"

(***************************************************************************)
(* Properties of the circuit breaker and the retry schedule                *)
(***************************************************************************)
\* C33: the breaker is consulted when startBrowser is called and not again:
\* only an idle slot is ever rejected; a failure the schedule retries leads
\* to the retry wait, and a retry whose wait is over is issued with the
\* breaker map untouched, also when the breaker of the id has opened during
\* the sequence.
C33_BreakerCheckedOncePerSequence ==
    [][\A p \in Procs :
          /\ proc'[p].pc = "start_rejected" => proc[p].pc \in {"idle", "start_rejected"}
          /\ ( /\ proc[p].pc = "retry_wait"
               /\ proc'[p] # proc[p]
               /\ now < proc[p].seqStart + 120000 )
             => /\ proc'[p].pc = "awaiting_start"
                /\ circuitBreakerState' = circuitBreakerState
          /\ \A resp \in Responses :
                ( /\ StartResponse(p, resp)
                  /\ resp.kind # "ok"
                  /\ isRetryableError(StartErrorMessage(resp))
                  /\ proc[p].attempts - 1 < RetryRecurs )
                => proc'[p].pc = "retry_wait"]_vars

\* The seventh call of a sequence is in flight although the six failures
\* before it have opened the breaker of the id.
C33_Witness ==
    \E p \in Procs :
        /\ proc[p].pc = "awaiting_start"
        /\ proc[p].attempts = 7
        /\ circuitBreakerState[proc[p].id].open
        /\ circuitBreakerState[proc[p].id].failures >= 6

\* C34: an entry is open exactly if its failure count is at least 5, an
\* existing entry has a count of at least 1, and the step in which a remote
\* start call fails adds one to the count of its id and sets lastFailure to
\* the current time.
C34_OpenIffThreshold ==
    [][/\ \A id \in Ids :
             circuitBreakerState[id].present
             => /\ circuitBreakerState[id].failures >= 1
                /\ circuitBreakerState[id].open <=> circuitBreakerState[id].failures >= 5
       /\ \A p \in Procs :
             ( /\ proc[p].pc = "awaiting_start"
               /\ \/ proc'[p].pc = "retry_wait"
                  \/ (proc'[p].pc = "idle" /\ proc'[p].result # OkResult) )
             => /\ circuitBreakerState'[proc[p].id].present
                /\ circuitBreakerState'[proc[p].id].failures =
                      circuitBreakerState[proc[p].id].failures + 1
                /\ circuitBreakerState'[proc[p].id].lastFailure = now]_vars

\* The fifth failure counted for an id has just opened its entry.
C34_Witness ==
    \E id \in Ids :
        /\ circuitBreakerState[id].present
        /\ circuitBreakerState[id].failures = 5
        /\ circuitBreakerState[id].open
        /\ circuitBreakerState[id].lastFailure = now
        /\ now > 0

\* C35: a startBrowser call that finds an entry that is not open and whose
\* last failure is more than 300000 ms old deletes the entry and is allowed;
\* so an entry that an allowed call keeps has its last failure within the
\* window.
C35_StaleEntryDeleted ==
    [][\A p \in Procs :
          (proc[p].pc = "idle" /\ proc'[p].pc \in {"awaiting_start", "start_rejected"})
          => LET id == proc'[p].id IN
             /\ ( /\ circuitBreakerState[id].present
                  /\ ~circuitBreakerState[id].open
                  /\ now - circuitBreakerState[id].lastFailure > 300000 )
                => /\ proc'[p].pc = "awaiting_start"
                   /\ ~circuitBreakerState'[id].present
             /\ (proc'[p].pc = "awaiting_start" /\ circuitBreakerState'[id].present)
                => now - circuitBreakerState'[id].lastFailure <= 300000]_vars

\* A sequence begins with no entry for its id although between one and four
\* calls for the id have failed, the first of them more than a window ago,
\* and none has succeeded since.
C35_Witness ==
    \E p \in Procs :
        /\ proc[p].pc = "awaiting_start"
        /\ proc[p].attempts = 1
        /\ proc[p].sentAt = now
        /\ ~circuitBreakerState[proc[p].id].present
        /\ history[proc[p].id].failedAttempts \in 1..4
        /\ now - history[proc[p].id].since > 300000

\* C36: the wait before the k-th retry of a sequence is 1000 ms, 2000 ms,
\* 4000 ms for k = 1, 2, 3 and 5000 ms for every later retry.
C36_RetryDelays ==
    \A p \in Procs :
        proc[p].pc = "retry_wait"
        => proc[p].wake - proc[p].sentAt =
              CASE proc[p].failed = 1 -> 1000
                [] proc[p].failed = 2 -> 2000
                [] proc[p].failed = 3 -> 4000
                [] OTHER -> 5000

\* The slot waits 5000 ms before its fourth retry.
C36_Witness ==
    \E p \in Procs :
        /\ proc[p].pc = "retry_wait"
        /\ proc[p].failed = 4
        /\ proc[p].wake = now + 5000

\* C38: a start rejected because the breaker is open leaves the breaker map
\* as it is, at the call and when the failure reaches the caller, and issues
\* no remote call.
C38_RejectionLeavesEntry ==
    [][\A p \in Procs :
          /\ (proc[p].pc = "idle" /\ proc'[p].pc = "start_rejected")
                => /\ circuitBreakerState' = circuitBreakerState
                   /\ startBudget' = startBudget
          /\ (proc[p].pc = "start_rejected" /\ proc'[p] # proc[p])
                => /\ circuitBreakerState' = circuitBreakerState
                   /\ startBudget' = startBudget
                   /\ proc'[p].result =
                         ContainerStartError(CircuitOpenMessage, proc[p].id)]_vars

\* A start was rejected some time after the fifth failure: the entry still
\* has five failures and the time of the fifth.
C38_Witness ==
    \E p \in Procs, id \in Ids :
        /\ proc[p].pc = "idle"
        /\ proc[p].result = ContainerStartError(CircuitOpenMessage, id)
        /\ circuitBreakerState[id].open
        /\ circuitBreakerState[id].failures = 5
        /\ circuitBreakerState[id].lastFailure < now

C39_StoppedSurvivesStartCompletion ==
    [][\A p, q \in Procs :
          ( /\ proc[q].pc = "idle"
            /\ proc[q].method = "stop"
            /\ status = "stopped"
            /\ proc[p].pc \in StartPcs
            /\ proc[p].method = "initialize"
            /\ proc'[p].pc \notin StartPcs )
          => status' = "stopped"]_vars

(***************************************************************************)
(* Properties of the withBrowser mixin                                     *)
(***************************************************************************)
\* C40: in the withBrowser mixin, an operation (act, goto, extract, reload)
\* called while the status is 'starting' does not call initialize: the
\* session record stays as it is, no remote start call is issued and no
\* further start sequence begins; the caller only waits.
C40_StartingOnlyPollsInMixin ==
    [][( /\ proc[MixinCaller].pc = "idle"
         /\ _session.exists
         /\ _session.status = "starting"
         /\ proc'[MixinCaller] # proc[MixinCaller]
         /\ proc'[MixinCaller].method \in MixinOpKinds )
       => /\ proc'[MixinCaller].pc = "polling"
          /\ _session' = _session
          /\ startBudget' = startBudget
          /\ \A q \in MixinStartSlots : proc'[q] = proc[q]]_vars

(***************************************************************************)
(* Properties of the breaker map under concurrent sessions                 *)
(***************************************************************************)
\* C31: the entry of an id changes only in a step of a start sequence for
\* that id; a step of a start sequence for one id (a call, a failure, a
\* success, a reset, a rejection) changes neither the entry of another id nor
\* whether a start for another id is allowed.
C31_BreakerIsolatedPerId ==
    [][/\ \A id \in Ids :
             circuitBreakerState'[id] # circuitBreakerState[id]
             => \E p \in Procs :
                   /\ proc'[p] # proc[p]
                   /\ id = IF proc[p].pc = "idle" THEN proc'[p].id ELSE proc[p].id
       /\ \A p \in Procs, id \in Ids :
             ( /\ proc'[p] # proc[p]
               /\ id # IF proc[p].pc = "idle" THEN proc'[p].id ELSE proc[p].id )
             => /\ circuitBreakerState'[id] = circuitBreakerState[id]
                /\ checkCircuitBreaker(circuitBreakerState', id, now') =
                      checkCircuitBreaker(circuitBreakerState, id, now)]_vars

\* The start for s1 has been rejected by its open breaker while the
\* sequence for s2, begun no earlier than the failure that opened it, has
\* had one failure of its own counted and is at its second call.
C31_Witness ==
    /\ circuitBreakerState["s1"].open
    /\ circuitBreakerState["s1"].failures = 5
    /\ proc["p1"].pc = "idle"
    /\ proc["p1"].result = ContainerStartError(CircuitOpenMessage, "s1")
    /\ proc["p2"].pc = "awaiting_start"
    /\ proc["p2"].id = "s2"
    /\ proc["p2"].attempts = 2
    /\ proc["p2"].seqStart >= circuitBreakerState["s1"].lastFailure
    /\ circuitBreakerState["s2"].failures = 1
    /\ ~circuitBreakerState["s2"].open

====
